---- MODULE Spec2Model ----
(***************************************************************************)
(* Model of src/lib/secrets.ts: the Secret enumeration, allSecrets and the *)
(* asynchronous getSecret, which reads the client credentials from the    *)
(* environment, lists the versions of a secret in the key vault, sorts    *)
(* them by creation time and fetches the value of the first.              *)
(*                                                                         *)
(* JavaScript strings are sequences of one-character strings, so that     *)
(* toLowerCase, replace and split are computed character by character.    *)
(***************************************************************************)
EXTENDS Integers, Sequences, FiniteSets

VARIABLES
    allSecrets,       \* the exported array, computed at module load
    vault,            \* creation timestamps of the stored versions, in the order the vault lists them
    active,           \* the callers that issue getSecret calls
    process,          \* "running" | "exited": the Node process
    pc,               \* per call: position of the async function
    secret,           \* per call: the argument
    clientId,         \* per call: const clientId (line 43)
    clientSecret,     \* per call: const clientSecret (line 44)
    azureSecretName,  \* per call: const azureSecretName (line 63)
    versions,         \* per call: const versions (line 65), sorted in place (line 66):
                      \* <<>> before the assignment, <<array>> after it
    latest,           \* per call: const latest (line 69)
    net,              \* per call: state of the vault request in flight
    thrown,           \* per call: the error thrown out of the token callback (line 54)
    result,           \* per call: settlement of the returned promise
    requests          \* per call: the requests the call has issued, in order

vars == <<allSecrets, vault, active, process, pc, secret, clientId, clientSecret,
          azureSecretName, versions, latest, net, thrown, result, requests>>

----------------------------------------------------------------------------
(* Bounds of the exploration *)

NumCalls == 2
MaxVersions == 3
MaxStamp == 3
ConcVersions == 1

Calls == 1..NumCalls
Stamps == 1..MaxStamp

----------------------------------------------------------------------------
(* JavaScript values and strings *)

Str(s) == [type |-> "string", num |-> 0, str |-> s]
Num(n) == [type |-> "number", num |-> n, str |-> <<>>]
Undefined == [type |-> "undefined", num |-> 0, str |-> <<>>]

UpperLetters == <<"A","B","C","D","E","F","G","H","I","J","K","L","M",
                  "N","O","P","Q","R","S","T","U","V","W","X","Y","Z">>
LowerLetters == <<"a","b","c","d","e","f","g","h","i","j","k","l","m",
                  "n","o","p","q","r","s","t","u","v","w","x","y","z">>
Digits == <<"0","1","2","3","4","5","6","7","8","9">>

\* The decimal string of a small non-negative integer.
RECURSIVE NumberToString(_)
NumberToString(n) == IF n < 10 THEN <<Digits[n + 1]>>
               ELSE NumberToString(n \div 10) \o <<Digits[(n % 10) + 1]>>

LowerChar(ch) ==
    IF \E i \in DOMAIN UpperLetters : UpperLetters[i] = ch
    THEN LowerLetters[CHOOSE i \in DOMAIN UpperLetters : UpperLetters[i] = ch]
    ELSE ch

\* String.prototype.toLowerCase
ToLowerCase(s) == [i \in 1..Len(s) |-> LowerChar(s[i])]

\* String.prototype.replace with a one-character global pattern: every match.
RECURSIVE ReplaceAll(_, _, _)
ReplaceAll(s, pat, rep) ==
    IF s = <<>> THEN <<>>
    ELSE (IF Head(s) = pat THEN rep ELSE <<Head(s)>>) \o ReplaceAll(Tail(s), pat, rep)

\* String.prototype.split on a one-character separator.
RECURSIVE SplitFrom(_, _, _, _)
SplitFrom(s, sep, i, cur) ==
    IF i > Len(s) THEN <<cur>>
    ELSE IF s[i] = sep THEN <<cur>> \o SplitFrom(s, sep, i + 1, <<>>)
    ELSE SplitFrom(s, sep, i + 1, Append(cur, s[i]))

Split(s, sep) == SplitFrom(s, sep, 1, <<>>)

----------------------------------------------------------------------------
(* enum Secret (lines 6-35) and allSecrets (lines 37-40) *)

AZURE_STORAGE_ACCESS_KEY ==
    <<"A","Z","U","R","E","_","S","T","O","R","A","G","E","_",
      "A","C","C","E","S","S","_","K","E","Y">>
GITHUB_ACCESS_TOKEN ==
    <<"G","I","T","H","U","B","_","A","C","C","E","S","S","_","T","O","K","E","N">>
GITHUB_SECRET == <<"G","I","T","H","U","B","_","S","E","C","R","E","T">>
NPM_TOKEN == <<"N","P","M","_","T","O","K","E","N">>

\* The members in declaration order; member i has the value i - 1.
SecretMembers == <<AZURE_STORAGE_ACCESS_KEY, GITHUB_ACCESS_TOKEN, GITHUB_SECRET, NPM_TOKEN>>

\* The object a numeric enum compiles to, as its own properties in the order
\* Object.keys enumerates them: the integer keys of the reverse mapping
\* ascending, then the member names in insertion order.
Secret ==
    [i \in 1..Len(SecretMembers) |->
        [key |-> NumberToString(i - 1), value |-> Str(SecretMembers[i])]]
    \o
    [i \in 1..Len(SecretMembers) |->
        [key |-> SecretMembers[i], value |-> Num(i - 1)]]

ObjectKeys(obj) == [i \in 1..Len(obj) |-> obj[i].key]

\* obj[key]
Get(obj, key) ==
    IF \E i \in 1..Len(obj) : obj[i].key = key
    THEN obj[CHOOSE i \in 1..Len(obj) : obj[i].key = key].value
    ELSE Undefined

\* Faulty variant of the callback: without the typeof test.
SecretValueOfKeyAll(key) == Get(Secret, key)

\* The callback of line 37-40: the value when it is a number, else undefined.
SecretValueOfKey(key) ==
    LET value == Get(Secret, key)
    IN  IF value.type = "number" THEN value ELSE Undefined

\* util.mapDefined: map, dropping the undefined results.
RECURSIVE DropUndefined(_)
DropUndefined(arr) ==
    IF arr = <<>> THEN <<>>
    ELSE (IF Head(arr) = Undefined THEN <<>> ELSE <<Head(arr)>>) \o DropUndefined(Tail(arr))

mapDefined(arr, mapper) == DropUndefined([i \in 1..Len(arr) |-> mapper[arr[i]]])

ComputeAllSecrets ==
    LET keys == ObjectKeys(Secret)
    IN  mapDefined(keys, [key \in {keys[i] : i \in 1..Len(keys)} |-> SecretValueOfKey(key)])

\* The values of type Secret a caller can pass.
SecretValues == 0..(Len(SecretMembers) - 1)

----------------------------------------------------------------------------
(* The key vault and the identity provider (external collaborators) *)

\* settings.azureKeyvault: the vault's base URL.
azureKeyvault == <<"h","t","t","p","s",":","/","/","k","v">>

\* The names under which the vault stores the four secrets (comment, line 62).
VaultSecretNames ==
    { <<"a","z","u","r","e","-","s","t","o","r","a","g","e","-",
        "a","c","c","e","s","s","-","k","e","y">>,
      <<"g","i","t","h","u","b","-","a","c","c","e","s","s","-","t","o","k","e","n">>,
      <<"g","i","t","h","u","b","-","s","e","c","r","e","t">>,
      <<"n","p","m","-","t","o","k","e","n">> }

\* The version identifier of the i-th stored version.
VersionName(i) == <<"v">> \o NumberToString(i)

\* SecretItem.id: <vault>/secrets/<name>/<version>
VersionId(name, i) ==
    azureKeyvault \o <<"/","s","e","c","r","e","t","s","/">> \o name \o <<"/">> \o VersionName(i)

\* What getSecretVersions answers for a name: the stored versions, in the
\* vault's order; nothing for a name the vault does not know.
ListVersions(name) ==
    IF name \in VaultSecretNames
    THEN [i \in 1..Len(vault) |->
            [id |-> VersionId(name, i), attributes |-> [created |-> vault[i]]]]
    ELSE <<>>

\* The value the vault stores for a version of a secret.
StoredValue(name, version) == name \o <<"#">> \o version

HasVersion(name, version) ==
    /\ name \in VaultSecretNames
    /\ \E i \in 1..Len(vault) : VersionName(i) = version

\* The identity provider grants a token to the registered client only.
IdpAccepts(id, sec) == id = "app" /\ sec = "good"

\* What process.env can hold for each variable: unset, empty, or a value.
ClientIdValues == {"undefined", "", "app"}
ClientSecretValues == {"undefined", "", "good", "bad"}

\* Faulty variant of the test: only "undefined" counts as missing.
TruthyNonUndefined(v) == v # "undefined"

\* JavaScript truthiness of an environment value.
Truthy(v) == v # "undefined" /\ v # ""

----------------------------------------------------------------------------
(* versions.sort(comparator), line 66 *)

\* Faulty variant of the comparator: the comparison reversed.
CompareAscending(a, b) == IF a.attributes.created > b.attributes.created THEN 1 ELSE 0 - 1

\* The comparator of line 66. It never returns 0: two versions created at the
\* same time compare as -1 in either order.
Compare(a, b) == IF a.attributes.created < b.attributes.created THEN 1 ELSE 0 - 1

\* V8's insertion sort (arrays of up to 10 elements, before V8 7.0).
RECURSIVE ShiftDown(_, _, _)
ShiftDown(a, j, element) ==
    IF j >= 1 /\ Compare(a[j], element) > 0
    THEN ShiftDown([a EXCEPT ![j + 1] = a[j]], j - 1, element)
    ELSE [a EXCEPT ![j + 1] = element]

RECURSIVE InsertionLoop(_, _)
InsertionLoop(a, i) ==
    IF i > Len(a) THEN a ELSE InsertionLoop(ShiftDown(a, i - 1, a[i]), i + 1)

InsertionSort(a) == InsertionLoop(a, 2)

\* V8's TimSort (from V8 7.0) on an array shorter than its minimum run: the
\* leading run is counted (and reversed when descending), the rest is
\* inserted by binary search.
RECURSIVE RunLength(_, _, _)
RunLength(a, isDescending, idx) ==
    IF idx > Len(a) THEN idx - 1
    ELSE LET order == Compare(a[idx], a[idx - 1])
         IN  IF (isDescending /\ order >= 0) \/ (~isDescending /\ order < 0)
             THEN idx - 1
             ELSE RunLength(a, isDescending, idx + 1)

ReverseRange(a, n) == [i \in 1..Len(a) |-> IF i <= n THEN a[n + 1 - i] ELSE a[i]]

RECURSIVE BinarySearch(_, _, _, _)
BinarySearch(a, pivot, left, right) ==
    IF left >= right THEN left
    ELSE LET mid == left + ((right - left) \div 2)
         IN  IF Compare(pivot, a[mid]) < 0
             THEN BinarySearch(a, pivot, left, mid)
             ELSE BinarySearch(a, pivot, mid + 1, right)

RECURSIVE BinaryInsertionSort(_, _)
BinaryInsertionSort(a, start) ==
    IF start > Len(a) THEN a
    ELSE LET pivot == a[start]
             left == BinarySearch(a, pivot, 1, start)
             moved == [i \in 1..Len(a) |->
                         IF i < left \/ i > start THEN a[i]
                         ELSE IF i = left THEN pivot
                         ELSE a[i - 1]]
         IN  BinaryInsertionSort(moved, start + 1)

TimSort(a) ==
    IF Len(a) < 2 THEN a
    ELSE LET isDescending == Compare(a[2], a[1]) < 0
             run == RunLength(a, isDescending, 3)
             made == IF isDescending THEN ReverseRange(a, run) ELSE a
         IN  BinaryInsertionSort(made, run + 1)

SortEngines == {"InsertionSort", "TimSort"}

\* Faulty variant: the array left as the vault listed it.
Unsorted(a, engine) == a

\* Array.prototype.sort as the engine running the program implements it. With
\* a comparator that is not consistent the order is implementation-defined,
\* so the engine is a choice of the caller of Sort.
Sort(a, engine) == IF engine = "TimSort" THEN TimSort(a) ELSE InsertionSort(a)

----------------------------------------------------------------------------
(* getSecret (lines 42-71) *)

\* String.prototype.replace with a pattern without the g flag: the first match.
RECURSIVE ReplaceFirst(_, _, _)
ReplaceFirst(s, pat, rep) ==
    IF s = <<>> THEN <<>>
    ELSE IF Head(s) = pat THEN rep \o Tail(s)
    ELSE <<Head(s)>> \o ReplaceFirst(Tail(s), pat, rep)

\* Faulty variant of line 63: the pattern without the g flag.
DeriveNameFirstOnly(sec) ==
    ReplaceFirst(ToLowerCase(Get(Secret, NumberToString(sec)).str), "_", <<"-">>)

\* Line 63: Secret[secret].toLowerCase().replace(/_/g, "-")
DeriveName(sec) ==
    ReplaceAll(ToLowerCase(Get(Secret, NumberToString(sec)).str), "_", <<"-">>)

\* Faulty variant of lines 68-69: the first part.
FirstPart(id) == Split(id, "/")[1]

\* Lines 68-69: the last "/"-separated part of the id.
LastPart(id) ==
    LET urlParts == Split(id, "/")
    IN  urlParts[Len(urlParts)]

NoValue == <<>>
Pending == [kind |-> "pending", error |-> "", value |-> NoValue]
Rejected(e) == [kind |-> "error", error |-> e, value |-> NoValue]
Resolved(v) == [kind |-> "value", error |-> "", value |-> v]

Request(op, name, version) == [op |-> op, name |-> name, version |-> version]

\* The stored version lists of at most n versions.
Vaults(n) == UNION { [1..k -> Stamps] : k \in 0..n }

InitCalls ==
    /\ allSecrets = ComputeAllSecrets
    /\ process = "running"
    /\ pc = [c \in Calls |-> "idle"]
    /\ secret = [c \in Calls |-> 0]
    /\ clientId = [c \in Calls |-> "undefined"]
    /\ clientSecret = [c \in Calls |-> "undefined"]
    /\ azureSecretName = [c \in Calls |-> <<>>]
    /\ versions = [c \in Calls |-> <<>>]
    /\ latest = [c \in Calls |-> <<>>]
    /\ net = [c \in Calls |-> "none"]
    /\ thrown = [c \in Calls |-> "none"]
    /\ result = [c \in Calls |-> Pending]
    /\ requests = [c \in Calls |-> <<>>]

\* One caller, any stored version list of up to MaxVersions versions.
Init ==
    /\ InitCalls
    /\ active = {1}
    /\ vault \in Vaults(MaxVersions)

\* Every caller, a stored version list of up to ConcVersions versions.
ConcInit ==
    /\ InitCalls
    /\ active = Calls
    /\ vault \in Vaults(ConcVersions)

\* Lines 42-65: read the credentials, fail without them; otherwise build the
\* client, derive the name and ask the vault for the versions.
Start(c) ==
    /\ process = "running"
    /\ c \in active
    /\ pc[c] = "idle"
    /\ \E sec \in SecretValues, id \in ClientIdValues, cs \in ClientSecretValues :
        /\ secret' = [secret EXCEPT ![c] = sec]
        /\ clientId' = [clientId EXCEPT ![c] = id]
        /\ clientSecret' = [clientSecret EXCEPT ![c] = cs]
        /\ IF ~(Truthy(id) /\ Truthy(cs))
           THEN /\ pc' = [pc EXCEPT ![c] = "rejected"]
                /\ result' = [result EXCEPT ![c] = Rejected("ConfigurationError")]
                /\ UNCHANGED <<azureSecretName, net, requests>>
           ELSE /\ azureSecretName' = [azureSecretName EXCEPT ![c] = DeriveName(sec)]
                /\ requests' = [requests EXCEPT ![c] =
                                  Append(@, Request("listVersions", DeriveName(sec), <<>>))]
                /\ net' = [net EXCEPT ![c] = "challenged"]
                /\ pc' = [pc EXCEPT ![c] = "awaitVersions"]
                /\ UNCHANGED result
    /\ UNCHANGED <<allSecrets, vault, active, process, versions, latest, thrown>>

\* Lines 50-52: the authenticator runs on the vault's authorization challenge
\* and asks the identity provider for a token.
Authenticate(c) ==
    /\ process = "running"
    /\ net[c] = "challenged"
    /\ requests' = [requests EXCEPT ![c] = Append(@, Request("acquireToken", <<>>, <<>>))]
    /\ net' = [net EXCEPT ![c] = "token"]
    /\ UNCHANGED <<allSecrets, vault, active, process, pc, secret, clientId, clientSecret,
                   azureSecretName, versions, latest, thrown, result>>

\* Lines 52-57: the identity provider's answer. With a token the request goes
\* on, authorized. With an error the callback throws it (line 54): the throw
\* happens on the provider's callback stack, outside the async function, so
\* the authenticator's callback is never called, the vault request never
\* completes, and the process either exits on the uncaught exception or, with
\* a process-wide handler installed, carries on.
TokenResponse(c) ==
    /\ process = "running"
    /\ net[c] = "token"
    /\ IF IdpAccepts(clientId[c], clientSecret[c])
       THEN /\ net' = [net EXCEPT ![c] = "authorized"]
            /\ UNCHANGED <<thrown, process>>
       ELSE /\ thrown' = [thrown EXCEPT ![c] = "AuthenticationError"]
            /\ net' = [net EXCEPT ![c] = "dead"]
            /\ \E p \in {"running", "exited"} : process' = p
    /\ UNCHANGED <<allSecrets, vault, active, pc, secret, clientId, clientSecret,
                   azureSecretName, versions, latest, result, requests>>

\* Lines 65-70: the vault's answer to getSecretVersions; sort, take the first,
\* ask for its value.
VersionsResponse(c) ==
    /\ process = "running"
    /\ pc[c] = "awaitVersions"
    /\ net[c] = "authorized"
    /\ \E fault \in BOOLEAN, engine \in SortEngines :
        IF fault
        THEN /\ pc' = [pc EXCEPT ![c] = "rejected"]
             /\ result' = [result EXCEPT ![c] = Rejected("TransportError")]
             /\ net' = [net EXCEPT ![c] = "none"]
             /\ UNCHANGED <<versions, latest, requests>>
        ELSE LET sorted == Sort(ListVersions(azureSecretName[c]), engine)
             IN  /\ versions' = [versions EXCEPT ![c] = <<sorted>>]
                 /\ IF sorted = <<>>
                    THEN \* versions[0] is undefined: reading .id throws
                         /\ pc' = [pc EXCEPT ![c] = "rejected"]
                         /\ result' = [result EXCEPT ![c] = Rejected("TypeError")]
                         /\ net' = [net EXCEPT ![c] = "none"]
                         /\ UNCHANGED <<latest, requests>>
                    ELSE /\ latest' = [latest EXCEPT ![c] = LastPart(sorted[1].id)]
                         /\ requests' = [requests EXCEPT ![c] =
                               Append(@, Request("getSecretValue", azureSecretName[c],
                                                 LastPart(sorted[1].id)))]
                         /\ net' = [net EXCEPT ![c] = "challenged"]
                         /\ pc' = [pc EXCEPT ![c] = "awaitSecret"]
                         /\ UNCHANGED result
    /\ UNCHANGED <<allSecrets, vault, active, process, secret, clientId, clientSecret,
                   azureSecretName, thrown>>

\* Line 70: the vault's answer to getSecret; its value is returned.
SecretResponse(c) ==
    /\ process = "running"
    /\ pc[c] = "awaitSecret"
    /\ net[c] = "authorized"
    /\ \E fault \in BOOLEAN :
        IF fault \/ ~HasVersion(azureSecretName[c], latest[c])
        THEN /\ pc' = [pc EXCEPT ![c] = "rejected"]
             /\ result' = [result EXCEPT ![c] = Rejected("TransportError")]
        ELSE /\ pc' = [pc EXCEPT ![c] = "resolved"]
             /\ result' = [result EXCEPT ![c] =
                             Resolved(StoredValue(azureSecretName[c], latest[c]))]
    /\ net' = [net EXCEPT ![c] = "none"]
    /\ UNCHANGED <<allSecrets, vault, active, process, secret, clientId, clientSecret,
                   azureSecretName, versions, latest, thrown, requests>>

Next ==
    \E c \in Calls :
        \/ Start(c)
        \/ Authenticate(c)
        \/ TokenResponse(c)
        \/ VersionsResponse(c)
        \/ SecretResponse(c)

Spec == Init /\ [][Next]_vars

ConcSpec == ConcInit /\ [][Next]_vars

----------------------------------------------------------------------------
(* Properties *)

RequestsOf(c, op) == { k \in DOMAIN requests[c] : requests[c][k].op = op }

\* The stored versions whose creation timestamp no other version exceeds.
NewestIndices == { i \in DOMAIN vault : \A j \in DOMAIN vault : vault[j] <= vault[i] }

DistinctStamps == \A i, j \in DOMAIN vault : i # j => vault[i] # vault[j]

\* The call has received a non-empty version listing.
ListedSome(c) == versions[c] # <<>> /\ versions[c][1] # <<>>

\* C1: when the listed versions have pairwise distinct creation timestamps,
\* the version getSecret fetches is the one with the maximum timestamp,
\* whatever the order of the listing.
C1_FetchesNewestOfDistinct ==
    \A c \in Calls :
        (ListedSome(c) /\ DistinctStamps) =>
            /\ RequestsOf(c, "getSecretValue") # {}
            /\ \A k \in RequestsOf(c, "getSecretValue") :
                 \E i \in DOMAIN vault :
                    /\ \A j \in DOMAIN vault : j # i => vault[j] < vault[i]
                    /\ requests[c][k].version = VersionName(i)

C1_Witness ==
    \E c \in Calls :
        /\ ListedSome(c) /\ DistinctStamps
        /\ Len(vault) = 3
        /\ vault[2] > vault[1] /\ vault[2] > vault[3]
        /\ \E k \in RequestsOf(c, "getSecretValue") : requests[c][k].version = VersionName(2)

\* C2: a call that found either credential variable unset or empty is
\* rejected with the configuration error and has issued no request at all,
\* neither to the identity provider nor to the vault.
C2_MissingCredentialsFailFirst ==
    \A c \in Calls :
        (pc[c] # "idle" /\ (clientId[c] \in {"undefined", ""} \/ clientSecret[c] \in {"undefined", ""})) =>
            /\ pc[c] = "rejected"
            /\ result[c] = Rejected("ConfigurationError")
            /\ requests[c] = <<>>
            /\ net[c] = "none"

C2_Witness ==
    \E c \in Calls :
        /\ pc[c] = "rejected"
        /\ clientId[c] = "app" /\ clientSecret[c] = ""
        /\ result[c] = Rejected("ConfigurationError")
        /\ requests[c] = <<>>

\* C3: a call whose version listing came back empty is rejected with
\* NotFoundError and has issued no getSecretValue request.
C3_EmptyListingIsNotFound ==
    \A c \in Calls :
        versions[c] = << <<>> >> =>
            /\ pc[c] = "rejected"
            /\ result[c] = Rejected("NotFoundError")
            /\ RequestsOf(c, "getSecretValue") = {}

\* The identity provider has answered a token request of the call with a
\* rejection of its credentials.
AuthRejected(c) ==
    /\ RequestsOf(c, "acquireToken") # {}
    /\ net[c] # "token"
    /\ ~IdpAccepts(clientId[c], clientSecret[c])

\* C4: a call whose credentials the identity provider rejected is rejected
\* with AuthenticationError.
C4_AuthRejectionRejectsCall ==
    \A c \in Calls :
        AuthRejected(c) =>
            /\ pc[c] = "rejected"
            /\ result[c] = Rejected("AuthenticationError")

\* The member name an enum value stands for.
MemberName(sec) == SecretMembers[sec + 1]

\* C5: the derived vault name is the member's key name with every letter
\* lowercased and every underscore replaced by a hyphen: it has no uppercase
\* letter and no underscore, and AZURE_STORAGE_ACCESS_KEY gives
\* "azure-storage-access-key".
C5_DerivedName ==
    \A c \in Calls :
        requests[c] # <<>> =>
            LET name == requests[c][1].name
                key == MemberName(secret[c])
            IN  /\ name = azureSecretName[c]
                /\ Len(name) = Len(key)
                /\ \A i \in 1..Len(key) :
                     \/ key[i] = "_" /\ name[i] = "-"
                     \/ \E k \in DOMAIN UpperLetters :
                          key[i] = UpperLetters[k] /\ name[i] = LowerLetters[k]
                /\ \A i \in 1..Len(name) :
                     /\ name[i] # "_"
                     /\ \A k \in DOMAIN UpperLetters : name[i] # UpperLetters[k]
                /\ secret[c] = 0 =>
                     name = <<"a","z","u","r","e","-","s","t","o","r","a","g","e","-",
                              "a","c","c","e","s","s","-","k","e","y">>

C5_Witness ==
    \E c \in Calls :
        /\ secret[c] = 0
        /\ requests[c] # <<>>
        /\ requests[c][1].op = "listVersions"
        /\ Len(requests[c][1].name) = 24
        /\ requests[c][1].name[6] = "-" /\ requests[c][1].name[14] = "-"
        /\ requests[c][1].name[21] = "-"

\* C6: every getSecretValue request names the secret the listVersions request
\* named and, as version, the identifier that ends the id of the version
\* sorted first; a call that resolved issued exactly one such request and
\* returns exactly the value the vault stores for that name and version.
C6_FetchesSelectedVersion ==
    \A c \in Calls :
        /\ \A k \in RequestsOf(c, "getSecretValue") :
             /\ \E l \in RequestsOf(c, "listVersions") : requests[c][l].name = requests[c][k].name
             /\ ListedSome(c)
             /\ \E i \in DOMAIN vault :
                  /\ versions[c][1][1].id = VersionId(requests[c][k].name, i)
                  /\ requests[c][k].version = VersionName(i)
        /\ pc[c] = "resolved" =>
             /\ Cardinality(RequestsOf(c, "getSecretValue")) = 1
             /\ Cardinality(RequestsOf(c, "listVersions")) = 1
             /\ \A k \in RequestsOf(c, "getSecretValue") :
                  result[c] = Resolved(StoredValue(requests[c][k].name, requests[c][k].version))

C6_Witness ==
    \E c \in Calls :
        /\ pc[c] = "resolved"
        /\ Len(vault) >= 2
        /\ result[c].kind = "value"
        /\ \E k \in RequestsOf(c, "getSecretValue") :
             /\ requests[c][k].version = VersionName(2)
             /\ result[c].value = requests[c][k].name \o <<"#","v","2">>

\* A step of the call has failed: its credentials were rejected, its
\* listing was empty, or its promise carries an error.
Failed(c) ==
    \/ AuthRejected(c)
    \/ versions[c] = << <<>> >>
    \/ result[c].kind = "error"

\* C7: a failure is terminal for the call: the call is rejected with an
\* error and returns no value, it issues no request after the failure, and it
\* issues at most one listVersions and at most one getSecretValue request.
C7_FailureIsTerminal ==
    /\ [](\A c \in Calls :
            /\ Failed(c) =>
                 /\ pc[c] = "rejected"
                 /\ result[c].kind = "error"
                 /\ result[c].value = NoValue
            /\ Cardinality(RequestsOf(c, "listVersions")) <= 1
            /\ Cardinality(RequestsOf(c, "getSecretValue")) <= 1)
    /\ [][\A c \in Calls : Failed(c) => requests'[c] = requests[c]]_vars

\* The call can take no further step.
Final(c) ==
    \/ pc[c] \in {"resolved", "rejected"}
    \/ pc[c] # "idle" /\ (process = "exited" \/ net[c] = "dead")

\* What the caller gets: the settlement, or a promise that never settles.
Outcome(c) == IF pc[c] \in {"resolved", "rejected"} THEN result[c] ELSE Pending

\* The outcomes the call can have when it runs alone with the credentials it
\* read, its argument and the vault's contents.
AloneOutcomes(c) ==
    IF clientId[c] \in {"undefined", ""} \/ clientSecret[c] \in {"undefined", ""}
    THEN {Rejected("ConfigurationError")}
    ELSE IF ~IdpAccepts(clientId[c], clientSecret[c])
    THEN {Pending}
    ELSE {Rejected("TransportError")} \cup
         (IF vault = <<>>
          THEN {Rejected("TypeError")}
          ELSE {Resolved(StoredValue(DeriveName(secret[c]), VersionName(i))) : i \in NewestIndices})

\* C8: calls are independent: whatever the other calls do, a call that can
\* take no further step has an outcome it can have when run alone.
C8_CallsAreIndependent ==
    \A c \in Calls : Final(c) => Outcome(c) \in AloneOutcomes(c)

\* C9: also when versions share a creation timestamp, no listed version is
\* newer than the one sorted first, and that one is the one fetched.
C9_SelectedIsAMaximum ==
    \A c \in Calls :
        ListedSome(c) =>
            LET selected == versions[c][1][1]
            IN  /\ \A j \in DOMAIN vault : vault[j] <= selected.attributes.created
                /\ \E i \in NewestIndices :
                     /\ selected.id = VersionId(azureSecretName[c], i)
                     /\ \A k \in RequestsOf(c, "getSecretValue") :
                          requests[c][k].version = VersionName(i)

C9_Witness ==
    \E c \in Calls :
        /\ ListedSome(c)
        /\ Len(vault) = 3
        /\ vault[1] < vault[2] /\ vault[2] = vault[3]
        /\ versions[c][1][1].attributes.created = vault[2]
        /\ pc[c] = "awaitSecret"

\* C10: allSecrets holds each of the four enum values exactly once, numbers
\* only, in every state any reader can see.
C10_AllSecretsAreTheMembers ==
    /\ Len(allSecrets) = Len(SecretMembers)
    /\ \A i \in 1..Len(allSecrets) : allSecrets[i].type = "number"
    /\ \A v \in SecretValues :
         Cardinality({ i \in 1..Len(allSecrets) : allSecrets[i] = Num(v) }) = 1

C10_Witness ==
    /\ Len(allSecrets) = 4
    /\ { allSecrets[i].num : i \in 1..Len(allSecrets) } = {0, 1, 2, 3}
    /\ \E c \in Calls : pc[c] = "resolved"

====
